---- MODULE Spec2Model ----
(***************************************************************************)
(* Coordinate normalisation (lib/utils/coordinates.ts) and the map/list    *)
(* synchronisation controller (components/naver-map.tsx).                  *)
(*                                                                         *)
(* Numbers are exact decimals  m * 10^(-e)  kept in canonical form (m not  *)
(* divisible by 10), plus the three IEEE specials NaN, +Infinity and       *)
(* -Infinity.  Text is a sequence of one-character strings.                *)
(***************************************************************************)
EXTENDS Integers, Sequences, FiniteSets, TLC

VARIABLES
    mapx, mapy, result,          \* normaliser: the raw pair and what it returned
    mounted,                     \* the component is mounted
    naverMaps, scriptState,      \* window.naver.maps, the SDK script tag
    injected, loadWait, attempts,\* this mount's script, its waiter and poll count
    mapInstance, mapReady, isLoading, error,
    center, zoom, mapType,       \* the widget's viewport
    tours, areaCode, selectedTourId, hoveredTourId,   \* props
    mountAreaCode,               \* areaCode as captured by initMap's closure
    markersRef, markerMap, onMap,\* marker bookkeeping and the widget's markers
    infoWindow, cleanupArmed,
    pending,                     \* effects of the commit in progress
    generation, geoPending,
    filters, keyword, searchMode,        \* home page: the query being edited
    currentPage, totalCount, listTours,  \* home page: what is displayed
    listLoading, listError,
    inflight, issued, lastIssued,        \* list requests not yet answered, their count, the latest
    pageLast,                            \* home page: the last event
    dmMounted, dmPos, dmLoading, dmError,\* DetailMap and its lat / lng props
    dmInstance, dmCenter, dmZoom, dmMarkers,
    dmWait, dmAttempts, dmInjected,
    last                         \* the event handled last (history)

normVars == <<mapx, mapy, result>>

envVars == <<naverMaps, scriptState>>
loadVars == <<injected, loadWait, attempts>>
stateVars == <<mapInstance, mapReady, isLoading, error>>
viewVars == <<center, zoom, mapType>>
propVars == <<tours, areaCode, selectedTourId, hoveredTourId>>
markerVars == <<markersRef, markerMap, onMap, cleanupArmed>>

ctlVars == <<mounted, envVars, loadVars, stateVars, viewVars, propVars,
             mountAreaCode, markerVars, infoWindow, pending, generation,
             geoPending, last>>

pageVars == <<filters, keyword, searchMode, currentPage, totalCount, listTours,
              listLoading, listError, inflight, issued, lastIssued, pageLast>>

dmVars == <<dmMounted, dmPos, dmLoading, dmError, dmInstance, dmCenter, dmZoom,
            dmMarkers, dmWait, dmAttempts, dmInjected>>

\* what the map controller leaves alone
otherVars == <<normVars, pageVars, dmVars>>

vars == <<normVars, ctlVars, pageVars, dmVars>>

-----------------------------------------------------------------------------
(* Numbers *)

NaN  == [k |-> "nan",  m |-> 0, e |-> 0]
PInf == [k |-> "pinf", m |-> 0, e |-> 0]
NInf == [k |-> "ninf", m |-> 0, e |-> 0]

RECURSIVE Canon(_, _)
Canon(m, e) ==
    IF m = 0 THEN [k |-> "fin", m |-> 0, e |-> 0]
    ELSE IF m % 10 = 0 THEN Canon(m \div 10, e - 1)
    ELSE [k |-> "fin", m |-> m, e |-> e]

Fin(m, e) == Canon(m, e)
Zero == Fin(0, 0)

\* m * 10^k, saturating beyond the 32-bit range (the other operand of a
\* comparison is never scaled and is smaller than the saturation value).
RECURSIVE ScaleSat(_, _)
ScaleSat(m, k) ==
    IF k = 0 THEN m
    ELSE IF m > 214748364 THEN 2147483647
    ELSE IF m < -214748364 THEN -2147483647
    ELSE ScaleSat(m * 10, k - 1)

CmpFin(a, b) ==
    LET E == IF a.e > b.e THEN a.e ELSE b.e
        A == ScaleSat(a.m, E - a.e)
        B == ScaleSat(b.m, E - b.e)
    IN  IF A < B THEN -1 ELSE IF A > B THEN 1 ELSE 0

\* IEEE comparisons: every comparison with NaN is false.
Le(a, b) ==
    /\ a.k # "nan"
    /\ b.k # "nan"
    /\ \/ a.k = "ninf"
       \/ b.k = "pinf"
       \/ a.k = "fin" /\ b.k = "fin" /\ CmpFin(a, b) <= 0
Ge(a, b) == Le(b, a)
Lt(a, b) == Le(a, b) /\ a # b
Gt(a, b) == Lt(b, a)

IsFiniteNum(a) == a.k = "fin"

AbsNum(a) ==
    IF a.k = "fin" THEN [a EXCEPT !.m = IF a.m < 0 THEN -a.m ELSE a.m]
    ELSE IF a.k = "nan" THEN NaN
    ELSE PInf

\* a / 10^k
DivPow10(a, k) == IF a.k = "fin" THEN Fin(a.m, a.e + k) ELSE a

-----------------------------------------------------------------------------
(* parseFloat on a sequence of characters *)

Digits == <<"0", "1", "2", "3", "4", "5", "6", "7", "8", "9">>
IsDigit(c) == \E d \in 1..10 : Digits[d] = c
DigitVal(c) == (CHOOSE d \in 1..10 : Digits[d] = c) - 1
InfinityLit == <<"I", "n", "f", "i", "n", "i", "t", "y">>

StartsWith(s, p) == Len(s) >= Len(p) /\ SubSeq(s, 1, Len(p)) = p

RECURSIVE SkipWs(_)
SkipWs(s) ==
    IF s # <<>> /\ Head(s) \in {" ", "\t", "\n"} THEN SkipWs(Tail(s)) ELSE s

\* the longest run of digits at the front of s, accumulated onto m
RECURSIVE ScanDigits(_, _, _)
ScanDigits(s, m, n) ==
    IF s # <<>> /\ IsDigit(Head(s))
    THEN ScanDigits(Tail(s), m * 10 + DigitVal(Head(s)), n + 1)
    ELSE [m |-> m, n |-> n, rest |-> s]

\* the decimal exponent of an "e[+-]ddd" suffix, 0 when there is none
ScanExp(s) ==
    IF s # <<>> /\ Head(s) \in {"e", "E"}
    THEN LET t   == Tail(s)
             neg == t # <<>> /\ Head(t) = "-"
             u   == IF t # <<>> /\ Head(t) \in {"+", "-"} THEN Tail(t) ELSE t
             d   == ScanDigits(u, 0, 0)
         IN  IF d.n = 0 THEN 0 ELSE IF neg THEN -d.m ELSE d.m
    ELSE 0

\* the digits after a "." continue the mantissa of the integer part ip
ScanFraction(ip) ==
    IF ip.rest # <<>> /\ Head(ip.rest) = "."
    THEN ScanDigits(Tail(ip.rest), ip.m, 0)
    ELSE [m |-> ip.m, n |-> 0, rest |-> ip.rest]

\* the value of integer part ip and fraction part fp; NaN without any digit
DecimalValue(neg, ip, fp) ==
    IF ip.n + fp.n = 0 THEN NaN
    ELSE Fin((IF neg THEN -1 ELSE 1) * fp.m, fp.n - ScanExp(fp.rest))

ScanMantissa(neg, ip) == DecimalValue(neg, ip, ScanFraction(ip))

\* the text after the sign: "Infinity" or a decimal literal
ParseUnsigned(neg, s) ==
    IF StartsWith(s, InfinityLit) THEN (IF neg THEN NInf ELSE PInf)
    ELSE ScanMantissa(neg, ScanDigits(s, 0, 0))

\* the text after leading white space: an optional sign, then the number
ParseSigned(s) ==
    ParseUnsigned(s # <<>> /\ Head(s) = "-",
                  IF s # <<>> /\ Head(s) \in {"+", "-"} THEN Tail(s) ELSE s)

parseFloat(s) == ParseSigned(SkipWs(s))

-----------------------------------------------------------------------------
(* lib/utils/coordinates.ts *)

KOREA_LAT_MIN == Fin(33, 0)
KOREA_LAT_MAX == Fin(386, 1)
KOREA_LNG_MIN == Fin(124, 0)
KOREA_LNG_MAX == Fin(132, 0)

Num(n) == [t |-> "num", n |-> n]
Str(s) == [t |-> "str", s |-> s]

\* typeof v === "number" ? v : parseFloat(String(v || "0")) || 0
\* faulty variant: the "|| 0" is missing, NaN gets through
KeepNaN(p) == p

\* p || 0
OrZero(p) == IF p.k = "nan" \/ p = Zero THEN Zero ELSE p

ParseRaw(v) ==
    IF v.t = "num" THEN v.n
    ELSE OrZero(parseFloat(IF v.s = <<>> THEN <<"0">> ELSE v.s))

InKoreaBox(x, y) ==
    /\ Ge(x, KOREA_LNG_MIN)
    /\ Le(x, KOREA_LNG_MAX)
    /\ Ge(y, KOREA_LAT_MIN)
    /\ Le(y, KOREA_LAT_MAX)

IsLargeScale(x, y) ==
    Ge(AbsNum(x), Fin(1000000, 0)) \/ Ge(AbsNum(y), Fin(1000000, 0))

\* the final else branch: divide, and go back to the raw pair when the
\* divided longitude left the box although the raw longitude is in it
FallBackToRaw(x, y, lng, lat) ==
    IF /\ Lt(lng, KOREA_LNG_MIN) \/ Gt(lng, KOREA_LNG_MAX)
       /\ Ge(x, KOREA_LNG_MIN) /\ Le(x, KOREA_LNG_MAX)
    THEN [lng |-> x, lat |-> y]
    ELSE [lng |-> lng, lat |-> lat]

SmallBranch(x, y) == FallBackToRaw(x, y, DivPow10(x, 7), DivPow10(y, 7))

\* faulty variant: scales every pair down, the regional box is not consulted
ConvertAlwaysDivides(x, y) == [lng |-> DivPow10(x, 7), lat |-> DivPow10(y, 7)]

\* faulty variant: the large-magnitude branch divides by 1,000,000
ConvertDividesByMillion(x, y) ==
    IF InKoreaBox(x, y) THEN [lng |-> x, lat |-> y]
    ELSE IF IsLargeScale(x, y)
         THEN [lng |-> DivPow10(x, 6), lat |-> DivPow10(y, 6)]
         ELSE SmallBranch(x, y)

Convert(x, y) ==
    IF InKoreaBox(x, y) THEN [lng |-> x, lat |-> y]
    ELSE IF IsLargeScale(x, y)
         THEN [lng |-> DivPow10(x, 7), lat |-> DivPow10(y, 7)]
         ELSE SmallBranch(x, y)

IsInWorldRange(lng, lat) ==
    /\ Ge(lat, Fin(-90, 0))
    /\ Le(lat, Fin(90, 0))
    /\ Ge(lng, Fin(-180, 0))
    /\ Le(lng, Fin(180, 0))

\* faulty variant: validity also demands the regional box
IsValidInsideBox(lng, lat) ==
    /\ IsFiniteNum(lat) /\ IsFiniteNum(lng)
    /\ lat # Zero /\ lng # Zero
    /\ IsInWorldRange(lng, lat)
    /\ InKoreaBox(lng, lat)

IsValid(lng, lat) ==
    /\ IsFiniteNum(lat) /\ IsFiniteNum(lng)
    /\ lat # Zero /\ lng # Zero
    /\ IsInWorldRange(lng, lat)

\* faulty variant: an invalid pair is returned without its coordinates
ValidOrNothing(c) ==
    IF IsValid(c.lng, c.lat) THEN [lng |-> c.lng, lat |-> c.lat, valid |-> TRUE]
    ELSE [valid |-> FALSE]

\* return { lng, lat, valid }
Validated(c) == [lng |-> c.lng, lat |-> c.lat, valid |-> IsValid(c.lng, c.lat)]

toWgs84FromKTO(rx, ry) == Validated(Convert(ParseRaw(rx), ParseRaw(ry)))

-----------------------------------------------------------------------------
(* lib/utils/region-coordinates.ts *)

Coord(lat, lng) == [lat |-> lat, lng |-> lng]

DEFAULT_CENTER == [lat |-> Fin(365, 1), lng |-> Fin(1275, 1), zoom |-> 7]

\* the entries of REGION_CENTERS for Seoul ("1") and Jeju ("39")
REGION_CENTERS ==
    [c \in {"1", "39"} |->
        IF c = "1" THEN [lat |-> Fin(375665, 4), lng |-> Fin(126978, 3), zoom |-> 11]
        ELSE [lat |-> Fin(334996, 4), lng |-> Fin(1265312, 4), zoom |-> 10]]

\* faulty variant: a code without an entry gets the first entry, Seoul
SeoulByDefault(code) ==
    IF code = "" THEN DEFAULT_CENTER
    ELSE IF code \in DOMAIN REGION_CENTERS THEN REGION_CENTERS[code]
    ELSE REGION_CENTERS["1"]

\* areaCode "" stands for an undefined prop
getRegionCenter(code) ==
    IF code = "" THEN DEFAULT_CENTER
    ELSE IF code \in DOMAIN REGION_CENTERS THEN REGION_CENTERS[code]
    ELSE DEFAULT_CENTER

-----------------------------------------------------------------------------
(* Inputs of the controller *)

\* TourItem: contentid, title, addr1 and the raw mapx / mapy strings
Tour(id, title, addr, x, y) ==
    [contentid |-> id, title |-> title, addr1 |-> addr, mapx |-> x, mapy |-> y]

\* scaled-integer coordinates of Seoul city hall
T1 == Tour("t1", "Gyeongbokgung", "Seoul",
           Str(<<"1", "2", "6", "9", "7", "8", "0", "0", "0", "0">>),
           Str(<<"3", "7", "5", "6", "6", "5", "0", "0", "0">>))
\* no usable location
T2 == Tour("t2", "Unknown", "", Str(<<"0">>), Str(<<>>))
\* valid degrees outside the regional box (Tokyo)
T3 == Tour("t3", "Tokyo Tower", "Tokyo",
           Str(<<"1", "3", "9", ".", "7">>), Str(<<"3", "5", ".", "6">>))
\* degrees inside the regional box (Busan)
T4 == Tour("t4", "Haeundae", "",
           Str(<<"1", "2", "9", ".", "1">>), Str(<<"3", "5", ".", "1">>))

AllTours == <<T1, T2, T3, T4>>

RECURSIVE Picks(_, _)
\* the sub-sequence of AllTours at the positions of set S, from position i on
Picks(S, i) ==
    IF i > Len(AllTours) THEN <<>>
    ELSE (IF i \in S THEN <<AllTours[i]>> ELSE <<>>) \o Picks(S, i + 1)

\* the result pages the parent may hand over, the empty page included
DataSets == { Picks(S, 1) : S \in {{}, {1, 2, 3}, {3, 4}} }

TourIds == {"t1", "t2"}
HoverIds == {"t1"}
AreaCodes == {"", "1"}
\* the undefined prop, Seoul, Jeju and a code REGION_CENTERS does not have
ViewAreaCodes == {"", "1", "39", "99"}
GeoPositions == {Coord(Fin(351, 1), Fin(1291, 1))}

NoContent == [title |-> "", address |-> "", link |-> ""]
NoMarker == [id |-> "", gen |-> 0, position |-> Coord(Zero, Zero),
             content |-> NoContent]
EmptyMap == [id \in {} |-> [marker |-> NoMarker, tour |-> T1]]
NoInfoWindow == [exists |-> FALSE, open |-> FALSE, anchor |-> NoMarker,
                 content |-> NoContent]
NoResult == [done |-> FALSE, lng |-> Zero, lat |-> Zero, valid |-> FALSE]
Event(ev, hit) == [ev |-> ev, hit |-> hit]

CtlInit ==
    /\ mounted = FALSE
    /\ \E env \in {<<"absent", FALSE>>, <<"loading", FALSE>>, <<"loaded", TRUE>>} :
          /\ scriptState = env[1]
          /\ naverMaps = env[2]
    /\ injected = FALSE /\ loadWait = "none" /\ attempts = 0
    /\ mapInstance = FALSE /\ mapReady = FALSE /\ isLoading = TRUE
    /\ error = "none"
    /\ center = Coord(Zero, Zero) /\ zoom = 0 /\ mapType = "normal"
    /\ tours = <<>> /\ areaCode = "" /\ selectedTourId = "" /\ hoveredTourId = ""
    /\ mountAreaCode = ""
    /\ markersRef = <<>> /\ markerMap = EmptyMap /\ onMap = {}
    /\ cleanupArmed = FALSE
    /\ infoWindow = NoInfoWindow
    /\ pending = <<>>
    /\ generation = 0
    /\ geoPending = FALSE
    /\ last = Event("init", FALSE)

\* the home page before its first render
NoList == [kind |-> "none", filters |-> "", keyword |-> "", page |-> 0]

PageInit ==
    /\ filters = "" /\ keyword = "" /\ searchMode = "filter"
    /\ currentPage = 1 /\ totalCount = 0 /\ listTours = NoList
    /\ listLoading = FALSE /\ listError = "none"
    /\ inflight = {} /\ issued = 0 /\ lastIssued = NoList
    /\ pageLast = "init"

\* DetailMap before its first render
DmInit ==
    /\ dmMounted = FALSE /\ dmPos = Coord(Zero, Zero) /\ dmLoading = TRUE /\ dmError = "none"
    /\ dmInstance = FALSE /\ dmCenter = Coord(Zero, Zero) /\ dmZoom = 0
    /\ dmMarkers = 0
    /\ dmWait = "none" /\ dmAttempts = 0 /\ dmInjected = FALSE

-----------------------------------------------------------------------------
(* The normaliser applied to one raw pair *)

MaxFrac == 4

Mantissas == {0, 1, 33, 386, 387, 124, 132, 133, 126978, 375665, 1397, 91, 181,
              -126978}

Degrees == { Fin(m, e) : m \in Mantissas, e \in 0..MaxFrac }

NumInputs ==
    Degrees \cup { DivPow10(d, -7) : d \in Degrees }
            \cup { Fin(1000000, 0), Fin(999999, 0), Fin(-1000000, 0) }
            \cup { NaN, PInf, NInf }

StrInputs ==
    { <<"1", "2", "6", ".", "9", "7", "8">>,
      <<"3", "7", ".", "5", "6", "6", "5">>,
      <<"1", "2", "6", "9", "7", "8", "0", "0", "0", "0">>,
      <<"3", "7", "5", "6", "6", "5", "0", "0", "0">>,
      <<"0">>, <<>>, <<"a", "b", "c">>, <<"3", "7", "a">>,
      <<" ", "3", "5", ".", "1">>, <<"-", "1", "2", "7">>,
      <<"I", "n", "f", "i", "n", "i", "t", "y">>,
      <<"1", ".", "2", "7", "e", "2">>, <<".">> }

RawInputs == { Num(n) : n \in NumInputs } \cup { Str(s) : s \in StrInputs }

NormInit ==
    /\ mapx \in RawInputs
    /\ mapy \in RawInputs
    /\ result = NoResult
    /\ CtlInit
    /\ scriptState = "absent"
    /\ PageInit
    /\ DmInit

Normalize ==
    /\ ~result.done
    /\ result' = [done |-> TRUE] @@ toWgs84FromKTO(mapx, mapy)
    /\ UNCHANGED <<mapx, mapy, ctlVars, pageVars, dmVars>>

NormNext == Normalize

SpecNorm == NormInit /\ [][NormNext]_vars

-----------------------------------------------------------------------------
(* components/naver-map.tsx: helpers *)

MaxGen == 3
MAX_ZOOM == 21
MIN_ZOOM == 1
SELECT_ZOOM == 15
GEO_ZOOM == 15
MAPS_MAX_ATTEMPTS == 60
CONTAINER_MAX_ATTEMPTS == 40

Range(f) == { f[i] : i \in DOMAIN f }
\* faulty variant: no clamp
NoClamp(a, b) == a

Min(a, b) == IF a < b THEN a ELSE b
Max(a, b) == IF a > b THEN a ELSE b

\* mapRef.current: the container div is rendered unless an error is shown
Container == mounted /\ error = "none"

\* the zoom / map-type / locate buttons are rendered
ControlsShown == mounted /\ error = "none" /\ mapReady /\ ~isLoading

\* title, address and detail link of the overlay
ContentHtml(tour) ==
    [title   |-> tour.title,
     address |-> IF tour.addr1 = "" THEN "no address" ELSE tour.addr1,
     link    |-> tour.contentid]

\* new naver.maps.Marker at the normalized coordinate c
MarkerAt(tour, gen, c) ==
    [id |-> tour.contentid, gen |-> gen,
     position |-> Coord(c.lat, c.lng), content |-> ContentHtml(tour)]

NewMarker(tour, gen) == MarkerAt(tour, gen, toWgs84FromKTO(tour.mapx, tour.mapy))

\* coords.valid && isFinite(coords.lat) && isFinite(coords.lng)
IsUsable(c) == c.valid /\ IsFiniteNum(c.lat) /\ IsFiniteNum(c.lng)

IsValidTour(t) == IsUsable(toWgs84FromKTO(t.mapx, t.mapy))

\* faulty variant: no record is filtered out
AllRecords(ts) == ts

validTours(ts) == SelectSeq(ts, IsValidTour)

\* faulty variant: the markers stay on the map
KeepMarkers(live, ref) == live

\* faulty variant: only the first marker is taken off the map
ReleaseFirstOnly(live, ref) == IF ref = <<>> THEN live ELSE live \ {ref[1]}

\* markersRef.current.forEach(m => m.setMap(null)); markersRef.current = []
ReleaseMarkers(live, ref) == live \ Range(ref)

\* validTours.forEach: one marker per tour, in order (markersRef.push)
CreateMarkers(ts, gen) == [i \in 1..Len(ts) |-> NewMarker(ts[i], gen)]

\* faulty variant: nothing is entered in the marker map
NoMarkerMap(ts, ms) == EmptyMap

\* faulty variant: every id is entered with the first marker
FirstMarkerForAll(ts, ms) ==
    [id \in { ts[i].contentid : i \in 1..Len(ts) } |->
        [marker |-> ms[1], tour |-> ts[1]]]

\* markerMapRef.current.set(tour.contentid, {marker, tour}) for each of them:
\* a later tour with the same id replaces the earlier entry
MarkerMapOf(ts, ms) ==
    [id \in { ts[i].contentid : i \in 1..Len(ts) } |->
        LET i == CHOOSE k \in 1..Len(ts) :
                    /\ ts[k].contentid = id
                    /\ \A n \in 1..Len(ts) : ts[n].contentid = id => n <= k
        IN  [marker |-> ms[i], tour |-> ts[i]]]

\* faulty variant: the overlay is left as it is
KeepInfoWindow(iw, marker, content) == iw

OpenInfoWindow(iw, marker, content) ==
    IF iw.exists
    THEN [exists |-> TRUE, open |-> TRUE, anchor |-> marker, content |-> content]
    ELSE iw

\* infoWindowRef.current.close(): nothing is shown and nothing is anchored
CloseInfoWindow(iw) ==
    IF iw.exists THEN [NoInfoWindow EXCEPT !.exists = TRUE] ELSE iw

\* faulty variant: initMap without the already-initialised guard
initMapAgain(rest) ==
    IF ~Container
    THEN /\ error' = "container"
         /\ isLoading' = FALSE
         /\ pending' = rest
         /\ UNCHANGED <<mapInstance, mapReady, viewVars>>
    ELSE IF ~naverMaps
    THEN /\ error' = "not-loaded"
         /\ isLoading' = FALSE
         /\ pending' = rest
         /\ UNCHANGED <<mapInstance, mapReady, viewVars>>
    ELSE LET rc == getRegionCenter(mountAreaCode)
         IN  /\ mapInstance' = TRUE
             /\ center' = Coord(rc.lat, rc.lng)
             /\ zoom' = rc.zoom
             /\ mapType' = "normal"
             /\ pending' = rest \o <<"ready">>
             /\ UNCHANGED <<mapReady, isLoading, error>>

\* initMap, called with `rest` the effects still to run in this commit
initMap(rest) ==
    IF ~Container
    THEN /\ error' = "container"
         /\ isLoading' = FALSE
         /\ pending' = rest
         /\ UNCHANGED <<mapInstance, mapReady, viewVars>>
    ELSE IF ~naverMaps
    THEN /\ error' = "not-loaded"
         /\ isLoading' = FALSE
         /\ pending' = rest
         /\ UNCHANGED <<mapInstance, mapReady, viewVars>>
    ELSE IF mapInstance
    THEN /\ isLoading' = FALSE
         /\ pending' = rest
         /\ UNCHANGED <<mapInstance, mapReady, error, viewVars>>
    ELSE LET rc == getRegionCenter(mountAreaCode)
         IN  /\ mapInstance' = TRUE
             /\ center' = Coord(rc.lat, rc.lng)
             /\ zoom' = rc.zoom
             /\ mapType' = "normal"
             /\ pending' = rest \o <<"ready">>
             /\ UNCHANGED <<mapReady, isLoading, error>>

\* waitForContainer
waitForContainer ==
    IF ~Container
    THEN /\ loadWait' = "container"
         /\ attempts' = 0
         /\ UNCHANGED <<stateVars, viewVars, pending>>
    ELSE /\ loadWait' = "none"
         /\ attempts' = 0
         /\ initMap(<<>>)

\* waitForNaverMaps
waitForNaverMaps ==
    IF ~naverMaps
    THEN /\ loadWait' = "maps"
         /\ attempts' = 0
         /\ UNCHANGED <<stateVars, viewVars, pending>>
    ELSE waitForContainer


-----------------------------------------------------------------------------
(* Renders: the parent hands over new props *)

Idle == mounted /\ pending = <<>>

\* first render and commit: every effect runs once, in declaration order
\* (a remount is a new instance of the component, with new refs and state)
Mount(ds, ac, sel) ==
    /\ ~mounted
    /\ generation = 0
    /\ mounted' = TRUE
    /\ tours' = ds
    /\ areaCode' = ac
    /\ selectedTourId' = sel
    /\ hoveredTourId' = ""
    /\ mountAreaCode' = ac
    /\ generation' = 1
    /\ pending' = <<"scriptLoad", "region", "marker", "selection", "hover">>
    /\ last' = Event("mount", FALSE)
    /\ UNCHANGED <<otherVars, envVars, loadVars, stateVars, viewVars, markerVars,
                   infoWindow, geoPending>>

\* a new tours array (deps [tours, mapReady]): cleanup of the last run, then
\* the marker effect
SetTours(ds) ==
    /\ Idle
    /\ generation < MaxGen
    /\ tours' = ds
    /\ generation' = generation + 1
    /\ pending' = (IF cleanupArmed THEN <<"markerCleanup">> ELSE <<>>) \o <<"marker">>
    /\ last' = Event("other", FALSE)
    /\ UNCHANGED <<otherVars, mounted, envVars, loadVars, stateVars, viewVars,
                   areaCode, selectedTourId, hoveredTourId, mountAreaCode,
                   markerVars, infoWindow, geoPending>>

SetAreaCode(ac) ==
    /\ Idle
    /\ ac # areaCode
    /\ areaCode' = ac
    /\ pending' = <<"region">>
    /\ last' = Event("other", FALSE)
    /\ UNCHANGED <<otherVars, mounted, envVars, loadVars, stateVars, viewVars,
                   tours, selectedTourId, hoveredTourId, mountAreaCode,
                   markerVars, infoWindow, generation, geoPending>>

SetSelected(id) ==
    /\ Idle
    /\ id # selectedTourId
    /\ selectedTourId' = id
    /\ pending' = <<"selection">>
    /\ last' = Event("other", FALSE)
    /\ UNCHANGED <<otherVars, mounted, envVars, loadVars, stateVars, viewVars,
                   tours, areaCode, hoveredTourId, mountAreaCode,
                   markerVars, infoWindow, generation, geoPending>>

SetHovered(id) ==
    /\ Idle
    /\ id # hoveredTourId
    /\ hoveredTourId' = id
    /\ pending' = <<"hover">>
    /\ last' = Event("other", FALSE)
    /\ UNCHANGED <<otherVars, mounted, envVars, loadVars, stateVars, viewVars,
                   tours, areaCode, selectedTourId, mountAreaCode,
                   markerVars, infoWindow, generation, geoPending>>

-----------------------------------------------------------------------------
(* Effects, run in order from the pending queue *)

Running(name) == pending # <<>> /\ Head(pending) = name

\* script load effect
RunScriptLoadEffect ==
    /\ Running("scriptLoad")
    /\ last' = Event("other", FALSE)
    /\ IF naverMaps /\ Container
       THEN /\ initMap(Tail(pending))
            /\ UNCHANGED <<envVars, loadVars>>
       ELSE IF scriptState # "absent"
       THEN /\ loadWait' = "existing"
            /\ pending' = Tail(pending)
            /\ UNCHANGED <<envVars, injected, attempts, stateVars, viewVars>>
       ELSE /\ scriptState' = "loading"
            /\ injected' = TRUE
            /\ loadWait' = "callback"
            /\ pending' = Tail(pending)
            /\ UNCHANGED <<naverMaps, attempts, stateVars, viewVars>>
    /\ UNCHANGED <<otherVars, mounted, propVars, mountAreaCode, markerVars,
                   infoWindow, generation, geoPending>>

\* faulty variant: the selection effect runs before the marker effect
CommitReadySelectionFirst ==
    /\ Running("ready")
    /\ mapReady' = TRUE
    /\ isLoading' = FALSE
    /\ pending' = Tail(pending) \o <<"selection", "marker", "hover">>
    /\ last' = Event("ready", FALSE)
    /\ UNCHANGED <<otherVars, mounted, envVars, loadVars, mapInstance, error,
                   viewVars, propVars, mountAreaCode, markerVars, infoWindow,
                   generation, geoPending>>

\* setMapReady(true); setIsLoading(false): the re-render after initMap, which
\* re-runs the effects that depend on mapReady, in the order they are declared
CommitReady ==
    /\ Running("ready")
    /\ mapReady' = TRUE
    /\ isLoading' = FALSE
    /\ pending' = Tail(pending) \o <<"marker", "selection", "hover">>
    /\ last' = Event("ready", FALSE)
    /\ UNCHANGED <<otherVars, mounted, envVars, loadVars, mapInstance, error,
                   viewVars, propVars, mountAreaCode, markerVars, infoWindow,
                   generation, geoPending>>

\* region effect
RunRegionEffect ==
    /\ Running("region")
    /\ pending' = Tail(pending)
    /\ IF ~mapInstance \/ ~naverMaps
       THEN /\ last' = Event("region", FALSE)
            /\ UNCHANGED <<center, zoom>>
       ELSE LET rc == getRegionCenter(areaCode)
            IN  /\ center' = Coord(rc.lat, rc.lng)
                /\ zoom' = rc.zoom
                /\ last' = Event("region", TRUE)
    /\ UNCHANGED <<otherVars, mounted, envVars, loadVars, stateVars, mapType,
                   propVars, mountAreaCode, markerVars, infoWindow, generation,
                   geoPending>>

\* faulty variant: the cleanup closes the overlay and keeps the markers
CleanupOverlayOnly ==
    /\ infoWindow' = CloseInfoWindow(infoWindow)
    /\ UNCHANGED <<onMap, markersRef, markerMap>>

\* faulty variant: the cleanup leaves the overlay open
CleanupMarkersOnly ==
    /\ onMap' = ReleaseMarkers(onMap, markersRef)
    /\ markersRef' = <<>>
    /\ markerMap' = EmptyMap
    /\ UNCHANGED infoWindow

\* the function the marker effect returns
MarkerCleanup ==
    /\ onMap' = ReleaseMarkers(onMap, markersRef)
    /\ markersRef' = <<>>
    /\ markerMap' = EmptyMap
    /\ infoWindow' = CloseInfoWindow(infoWindow)

\* the cleanup the marker effect returned, run before the effect runs again
RunMarkerCleanup ==
    /\ Running("markerCleanup")
    /\ pending' = Tail(pending)
    /\ MarkerCleanup
    /\ cleanupArmed' = FALSE
    /\ last' = Event("markerCleanup", FALSE)
    /\ UNCHANGED <<otherVars, mounted, envVars, loadVars, stateVars, viewVars,
                   propVars, mountAreaCode, generation, geoPending>>

\* the prior markers leave the map, then the markers ms of tours vt go on it
PlaceMarkers(vt, ms) ==
    /\ onMap' = ReleaseMarkers(onMap, markersRef) \cup Range(ms)
    /\ markerMap' = MarkerMapOf(vt, ms)
    /\ markersRef' = ms

DrawMarkers(vt) == PlaceMarkers(vt, CreateMarkers(vt, generation))

\* faulty variant: the marker effect waits for the SDK only
MarkerEffectNeedsSdkOnly == ~naverMaps

\* the guard of the marker effect
MarkerEffectWaits == ~mapReady \/ ~mapInstance \/ ~naverMaps

\* marker effect
RunMarkerEffect ==
    /\ Running("marker")
    /\ pending' = Tail(pending)
    /\ IF MarkerEffectWaits
       THEN /\ cleanupArmed' = FALSE
            /\ last' = Event("markers", FALSE)
            /\ UNCHANGED <<markersRef, markerMap, onMap, infoWindow>>
       ELSE IF tours = <<>>
       THEN /\ onMap' = ReleaseMarkers(onMap, markersRef)
            /\ markersRef' = <<>>
            /\ markerMap' = EmptyMap
            /\ cleanupArmed' = FALSE
            /\ last' = Event("markers", TRUE)
            /\ UNCHANGED infoWindow
       ELSE /\ DrawMarkers(validTours(tours))
            /\ infoWindow' = IF infoWindow.exists THEN infoWindow
                             ELSE [NoInfoWindow EXCEPT !.exists = TRUE]
            /\ cleanupArmed' = TRUE
            /\ last' = Event("markers", TRUE)
    /\ UNCHANGED <<otherVars, mounted, envVars, loadVars, stateVars, viewVars,
                   propVars, mountAreaCode, generation, geoPending>>

\* the selection effect gets past its guards and finds the marker
SelectionApplies ==
    /\ selectedTourId # ""
    /\ mapReady /\ mapInstance /\ naverMaps
    /\ selectedTourId \in DOMAIN markerMap

\* faulty variant: a selection that finds no marker closes the overlay
SelectionMissClosesOverlay ==
    /\ infoWindow' = CloseInfoWindow(infoWindow)
    /\ UNCHANGED <<center, zoom>>

\* the early returns of the selection effect
SelectionMiss == UNCHANGED <<center, zoom, infoWindow>>

\* selection effect
RunSelectionEffect ==
    /\ Running("selection")
    /\ pending' = Tail(pending)
    /\ IF ~SelectionApplies
       THEN /\ last' = Event("select", FALSE)
            /\ SelectionMiss
       ELSE LET md == markerMap[selectedTourId]
            IN  /\ center' = md.marker.position
                /\ zoom' = SELECT_ZOOM
                /\ infoWindow' = OpenInfoWindow(infoWindow, md.marker,
                                                ContentHtml(md.tour))
                /\ last' = Event("select", TRUE)
    /\ UNCHANGED <<otherVars, mounted, envVars, loadVars, stateVars, mapType,
                   propVars, mountAreaCode, markerVars, generation, geoPending>>

\* the hover effect gets past its guards and finds the marker
HoverApplies ==
    /\ mapReady /\ naverMaps
    /\ hoveredTourId # ""
    /\ hoveredTourId \in DOMAIN markerMap

\* faulty variant: hovering moves the overlay to the hovered marker
HoverOpensOverlay ==
    /\ infoWindow' = IF HoverApplies
                     THEN OpenInfoWindow(infoWindow, markerMap[hoveredTourId].marker,
                                         ContentHtml(markerMap[hoveredTourId].tour))
                     ELSE infoWindow
    /\ UNCHANGED <<viewVars, markerVars>>

\* the body of the hover effect: the emphasis is left unimplemented, the
\* marker is only looked up and logged
HoverEmphasis == UNCHANGED <<viewVars, markerVars, infoWindow>>

\* hover effect
RunHoverEffect ==
    /\ Running("hover")
    /\ pending' = Tail(pending)
    /\ last' = Event("hover", HoverApplies)
    /\ HoverEmphasis
    /\ UNCHANGED <<otherVars, mounted, envVars, loadVars, stateVars,
                   propVars, mountAreaCode, generation, geoPending>>

-----------------------------------------------------------------------------
(* The SDK script, its callbacks and the readiness polls *)

\* script.onload: the script has arrived (the handler only logs)
ScriptLoaded ==
    /\ Idle
    /\ scriptState = "loading"
    /\ scriptState' = "loaded"
    /\ last' = Event("other", FALSE)
    /\ UNCHANGED <<otherVars, mounted, naverMaps, loadVars, stateVars, viewVars,
                   propVars, mountAreaCode, markerVars, infoWindow, pending,
                   generation, geoPending>>

\* script.onerror
ScriptError ==
    /\ Idle
    /\ scriptState = "loading"
    /\ scriptState' = "failed"
    /\ IF injected
       THEN error' = "network" /\ isLoading' = FALSE
       ELSE UNCHANGED <<error, isLoading>>
    /\ last' = Event("other", FALSE)
    /\ UNCHANGED <<otherVars, mounted, naverMaps, loadVars, mapInstance, mapReady,
                   viewVars, propVars, mountAreaCode, markerVars, infoWindow,
                   pending, generation, geoPending>>

\* the SDK defines window.naver.maps
MapsAvailable ==
    /\ Idle
    /\ scriptState = "loaded"
    /\ ~naverMaps
    /\ naverMaps' = TRUE
    /\ last' = Event("other", FALSE)
    /\ UNCHANGED <<otherVars, mounted, scriptState, loadVars, stateVars, viewVars,
                   propVars, mountAreaCode, markerVars, infoWindow, pending,
                   generation, geoPending>>

\* window.__naverMapOnLoad
NaverMapOnLoad ==
    /\ Idle
    /\ injected
    /\ scriptState = "loaded"
    /\ loadWait = "callback"
    /\ waitForNaverMaps
    /\ last' = Event("other", FALSE)
    /\ UNCHANGED <<otherVars, mounted, envVars, injected, propVars, mountAreaCode,
                   markerVars, infoWindow, generation, geoPending>>

\* window.__naverMapOnLoad stays defined on window and is invoked once more,
\* after the wait its first invocation started has ended
NaverMapOnLoadAgain ==
    /\ Idle
    /\ injected
    /\ scriptState = "loaded"
    /\ loadWait = "none"
    /\ waitForNaverMaps
    /\ last' = Event("loadAgain", mapInstance)
    /\ UNCHANGED <<otherVars, mounted, envVars, injected, propVars, mountAreaCode,
                   markerVars, infoWindow, generation, geoPending>>

\* window.navermap_authFailure
AuthFailure ==
    /\ Idle
    /\ injected
    /\ scriptState = "loaded"
    /\ error # "auth"
    /\ error' = "auth"
    /\ isLoading' = FALSE
    /\ last' = Event("other", FALSE)
    /\ UNCHANGED <<otherVars, mounted, envVars, loadVars, mapInstance, mapReady,
                   viewVars, propVars, mountAreaCode, markerVars, infoWindow,
                   pending, generation, geoPending>>

\* one tick of the 50 ms interval of waitForNaverMaps
MapsPollTick ==
    /\ Idle
    /\ loadWait = "maps"
    /\ last' = Event("other", FALSE)
    /\ IF naverMaps
       THEN waitForContainer
       ELSE IF attempts + 1 >= MAPS_MAX_ATTEMPTS
       THEN /\ loadWait' = "none"
            /\ attempts' = 0
            /\ error' = "auth"
            /\ isLoading' = FALSE
            /\ UNCHANGED <<mapInstance, mapReady, viewVars, pending>>
       ELSE /\ attempts' = attempts + 1
            /\ UNCHANGED <<loadWait, stateVars, viewVars, pending>>
    /\ UNCHANGED <<otherVars, mounted, envVars, injected, propVars, mountAreaCode,
                   markerVars, infoWindow, generation, geoPending>>

\* one tick of the 50 ms interval of waitForContainer
ContainerPollTick ==
    /\ Idle
    /\ loadWait = "container"
    /\ last' = Event("other", FALSE)
    /\ IF Container
       THEN /\ loadWait' = "none"
            /\ attempts' = 0
            /\ initMap(<<>>)
       ELSE IF attempts + 1 >= CONTAINER_MAX_ATTEMPTS
       THEN /\ loadWait' = "none"
            /\ attempts' = 0
            /\ error' = "container"
            /\ isLoading' = FALSE
            /\ UNCHANGED <<mapInstance, mapReady, viewVars, pending>>
       ELSE /\ attempts' = attempts + 1
            /\ UNCHANGED <<loadWait, stateVars, viewVars, pending>>
    /\ UNCHANGED <<otherVars, mounted, envVars, injected, propVars, mountAreaCode,
                   markerVars, infoWindow, generation, geoPending>>

\* a tick of the 100 ms interval that waits for an already present script and
\* finds window.naver.maps (a tick that does not find it changes nothing)
ExistingPollTick ==
    /\ Idle
    /\ loadWait = "existing"
    /\ naverMaps
    /\ loadWait' = "none"
    /\ last' = Event("other", FALSE)
    /\ IF Container
       THEN initMap(<<>>)
       ELSE UNCHANGED <<stateVars, viewVars, pending>>
    /\ UNCHANGED <<otherVars, mounted, envVars, injected, attempts, propVars,
                   mountAreaCode, markerVars, infoWindow, generation, geoPending>>

\* the 10 s timeout of that wait, firing while window.naver.maps is missing
\* (once the interval has found it, the timeout finds it too and does nothing)
ExistingTimeout ==
    /\ Idle
    /\ loadWait = "existing"
    /\ ~naverMaps
    /\ loadWait' = "none"
    /\ error' = "timeout"
    /\ isLoading' = FALSE
    /\ last' = Event("other", FALSE)
    /\ UNCHANGED <<otherVars, mounted, envVars, injected, attempts, mapInstance,
                   mapReady, viewVars, propVars, mountAreaCode, markerVars,
                   infoWindow, pending, generation, geoPending>>

-----------------------------------------------------------------------------
(* Viewport controls and marker clicks *)

handleZoomIn ==
    /\ Idle /\ ControlsShown
    /\ mapInstance /\ naverMaps
    /\ zoom' = Min(zoom + 1, MAX_ZOOM)
    /\ last' = Event("other", FALSE)
    /\ UNCHANGED <<otherVars, mounted, envVars, loadVars, stateVars, center,
                   mapType, propVars, mountAreaCode, markerVars, infoWindow,
                   pending, generation, geoPending>>

handleZoomOut ==
    /\ Idle /\ ControlsShown
    /\ mapInstance /\ naverMaps
    /\ zoom' = Max(zoom - 1, MIN_ZOOM)
    /\ last' = Event("other", FALSE)
    /\ UNCHANGED <<otherVars, mounted, envVars, loadVars, stateVars, center,
                   mapType, propVars, mountAreaCode, markerVars, infoWindow,
                   pending, generation, geoPending>>

handleMapTypeChange ==
    /\ Idle /\ ControlsShown
    /\ mapInstance /\ naverMaps
    /\ mapType' = IF mapType = "normal" THEN "satellite" ELSE "normal"
    /\ last' = Event("other", FALSE)
    /\ UNCHANGED <<otherVars, mounted, envVars, loadVars, stateVars, center,
                   zoom, propVars, mountAreaCode, markerVars, infoWindow,
                   pending, generation, geoPending>>

\* handleCurrentLocation: asks the browser for the position
handleCurrentLocation ==
    /\ Idle /\ ControlsShown
    /\ mapInstance /\ naverMaps
    /\ ~geoPending
    /\ geoPending' = TRUE
    /\ last' = Event("other", FALSE)
    /\ UNCHANGED <<otherVars, mounted, envVars, loadVars, stateVars, viewVars,
                   propVars, mountAreaCode, markerVars, infoWindow, pending,
                   generation>>

\* getCurrentPosition's success callback
GeoSuccess(pos) ==
    /\ Idle
    /\ geoPending
    /\ geoPending' = FALSE
    /\ center' = pos
    /\ zoom' = GEO_ZOOM
    /\ last' = Event("other", FALSE)
    /\ UNCHANGED <<otherVars, mounted, envVars, loadVars, stateVars, mapType,
                   propVars, mountAreaCode, markerVars, infoWindow, pending,
                   generation>>

\* faulty variant: a failed request moves the map to the nationwide default
GeoErrorFallsBack ==
    /\ Idle
    /\ geoPending
    /\ geoPending' = FALSE
    /\ center' = Coord(DEFAULT_CENTER.lat, DEFAULT_CENTER.lng)
    /\ zoom' = DEFAULT_CENTER.zoom
    /\ last' = Event("geoError", TRUE)
    /\ UNCHANGED <<otherVars, mounted, envVars, loadVars, stateVars, mapType,
                   propVars, mountAreaCode, markerVars, infoWindow, pending,
                   generation>>

\* getCurrentPosition's error callback: alert(errorMessage), recorded in last
GeoError ==
    /\ Idle
    /\ geoPending
    /\ geoPending' = FALSE
    /\ last' = Event("geoError", TRUE)
    /\ UNCHANGED <<otherVars, mounted, envVars, loadVars, stateVars, viewVars,
                   propVars, mountAreaCode, markerVars, infoWindow, pending,
                   generation>>

\* the click listener of a marker that is on the map
MarkerClick(m) ==
    /\ Idle
    /\ error = "none" /\ ~isLoading
    /\ m \in onMap
    /\ infoWindow' = OpenInfoWindow(infoWindow, m, m.content)
    /\ last' = Event("other", FALSE)
    /\ UNCHANGED <<otherVars, mounted, envVars, loadVars, stateVars, viewVars,
                   propVars, mountAreaCode, markerVars, pending, generation,
                   geoPending>>

\* the component is removed: React runs the cleanups of its effects. Only
\* the marker effect returns one that does anything, and only from a run that
\* reached its end.
Unmount ==
    /\ Idle
    /\ mounted' = FALSE
    /\ IF cleanupArmed
       THEN MarkerCleanup
       ELSE UNCHANGED <<onMap, markersRef, markerMap, infoWindow>>
    /\ cleanupArmed' = FALSE
    /\ last' = Event("unmount", cleanupArmed)
    /\ UNCHANGED <<otherVars, envVars, loadVars, stateVars, viewVars, propVars,
                   mountAreaCode, pending, generation, geoPending>>

-----------------------------------------------------------------------------
(* app/page.tsx: the home page and its list requests *)

MaxReq == 5
numOfRows == 20

Keywords == {"", "palace"}


\* the parameters of getAreaBasedList and of searchKeyword
FilterReq(f, page) ==
    [kind |-> "filter", filters |-> f, keyword |-> "", page |-> page]
SearchReq(k, f, page) ==
    [kind |-> "search", filters |-> f, keyword |-> k, page |-> page]

\* result.totalCount as the API answers the query
TotalOf(req) ==
    IF req.kind = "search" THEN 21
    ELSE IF req.filters = "" THEN 40 ELSE 25

\* Math.ceil(totalCount / numOfRows)
totalPages == (totalCount + numOfRows - 1) \div numOfRows

PageMounted == pageLast # "init"


\* loadToursByFilter / loadToursBySearch up to the await, for the requests rs
\* in order, on top of the requests `left` still in flight
Issue(left, rs) ==
    /\ issued + Len(rs) <= MaxReq
    /\ inflight' = left \cup { [seq |-> issued + i, req |-> rs[i]] : i \in 1..Len(rs) }
    /\ issued' = issued + Len(rs)
    /\ IF rs = <<>>
       THEN UNCHANGED <<listLoading, listError, lastIssued>>
       ELSE /\ listLoading' = TRUE
            /\ listError' = "none"
            /\ lastIssued' = rs[Len(rs)]

\* the request of the filter-change effect, which loads when the page is in
\* filter mode and the keyword is empty
FilterEffect(ran, f, mode, k) ==
    IF ran /\ mode = "filter" /\ k = "" THEN <<FilterReq(f, 1)>> ELSE <<>>

\* first render: the filter-change effect and the initial-load effect both load
PageMount ==
    /\ ~PageMounted
    /\ Issue(inflight, <<FilterReq(filters, 1), FilterReq(filters, 1)>>)
    /\ pageLast' = "mount"
    /\ UNCHANGED <<filters, keyword, searchMode, currentPage, totalCount, listTours>>
    /\ UNCHANGED <<normVars, ctlVars, dmVars>>

\* handleFiltersChange and the effects of the render it causes
handleFiltersChange(f) ==
    /\ PageMounted
    /\ filters' = f
    /\ keyword' = ""
    /\ currentPage' = 1
    /\ Issue(inflight, FilterEffect(TRUE, f, searchMode, ""))
    /\ pageLast' = "filters"
    /\ UNCHANGED <<searchMode, totalCount, listTours>>
    /\ UNCHANGED <<normVars, ctlVars, dmVars>>

\* handleSearch and the effects of the render it causes
handleSearch(k) ==
    /\ PageMounted
    /\ keyword' = k
    /\ currentPage' = 1
    /\ IF k # ""
       THEN /\ Issue(inflight, <<SearchReq(k, filters, 1)>>)
            /\ UNCHANGED searchMode
       ELSE /\ searchMode' = "filter"
            /\ Issue(inflight,
                     <<FilterReq(filters, 1)>> \o
                     FilterEffect(keyword # "" \/ searchMode # "filter",
                                  filters, "filter", ""))
    /\ pageLast' = "search"
    /\ UNCHANGED <<filters, totalCount, listTours>>
    /\ UNCHANGED <<normVars, ctlVars, dmVars>>

\* handleSearchReset and the effects of the render it causes
handleSearchReset ==
    /\ PageMounted
    /\ keyword # "" \/ searchMode = "search"
    /\ keyword' = ""
    /\ currentPage' = 1
    /\ searchMode' = "filter"
    /\ Issue(inflight, <<FilterReq(filters, 1), FilterReq(filters, 1)>>)
    /\ pageLast' = "reset"
    /\ UNCHANGED <<filters, totalCount, listTours>>
    /\ UNCHANGED <<normVars, ctlVars, dmVars>>

\* the request of handlePageChange and handleRetry
LoadByMode(page) ==
    IF searchMode = "search" /\ keyword # ""
    THEN SearchReq(keyword, filters, page)
    ELSE FilterReq(filters, page)

\* handlePageChange, from the pagination that is rendered when a list of more
\* than one page is shown
handlePageChange(page) ==
    /\ PageMounted
    /\ ~listLoading /\ listError = "none" /\ listTours # NoList /\ totalPages > 1
    /\ page \in 1..totalPages
    /\ page # currentPage
    /\ currentPage' = page
    /\ Issue(inflight, <<LoadByMode(page)>>)
    /\ pageLast' = "page"
    /\ UNCHANGED <<filters, keyword, searchMode, totalCount, listTours>>
    /\ UNCHANGED <<normVars, ctlVars, dmVars>>

\* handleRetry, from the error view of the list
handleRetry ==
    /\ PageMounted
    /\ listError # "none"
    /\ Issue(inflight, <<LoadByMode(currentPage)>>)
    /\ pageLast' = "retry"
    /\ UNCHANGED <<filters, keyword, searchMode, currentPage, totalCount, listTours>>
    /\ UNCHANGED <<normVars, ctlVars, dmVars>>

\* a request is answered: the part of the load function after the await, and
\* the filter-change effect when searchMode changed
Respond(r) ==
    /\ r \in inflight
    /\ listTours' = r.req
    /\ totalCount' = TotalOf(r.req)
    /\ searchMode' = r.req.kind
    /\ IF r.req.kind # searchMode /\ r.req.kind = "filter" /\ keyword = ""
       THEN /\ currentPage' = 1
            /\ Issue(inflight \ {r}, <<FilterReq(filters, 1)>>)
       ELSE /\ currentPage' = r.req.page
            /\ inflight' = inflight \ {r}
            /\ listLoading' = FALSE
            /\ UNCHANGED <<issued, lastIssued, listError>>
    /\ pageLast' = "response"
    /\ UNCHANGED <<filters, keyword>>
    /\ UNCHANGED <<normVars, ctlVars, dmVars>>

\* a request fails: catch and finally
Fail(r) ==
    /\ r \in inflight
    /\ inflight' = inflight \ {r}
    /\ listError' = "failed"
    /\ listLoading' = FALSE
    /\ pageLast' = "failure"
    /\ UNCHANGED <<filters, keyword, searchMode, currentPage, totalCount,
                   listTours, issued, lastIssued>>
    /\ UNCHANGED <<normVars, ctlVars, dmVars>>

NextPage ==
    \/ PageMount
    \/ \E f \in AreaCodes : handleFiltersChange(f)
    \/ \E k \in Keywords : handleSearch(k)
    \/ handleSearchReset
    \/ \E page \in 1..totalPages : handlePageChange(page)
    \/ handleRetry
    \/ \E r \in inflight : Respond(r)
    \/ \E r \in inflight : Fail(r)

-----------------------------------------------------------------------------
(* components/detail-map.tsx: the map of one location *)

DM_ZOOM == 15
DM_MAX_ATTEMPTS == 50

\* the lat / lng props
DetailPositions == {Coord(Fin(375665, 4), Fin(126978, 3)),
                    Coord(Fin(351, 1), Fin(1291, 1))}

\* the variables of the map controller other than window.naver.maps and the
\* script tag
ctlOwnVars == <<mounted, loadVars, stateVars, viewVars, propVars, mountAreaCode,
                markerVars, infoWindow, pending, generation, geoPending, last>>

\* mapRef.current: the container div is rendered only when there is neither
\* an error nor the loading view
DmContainer == dmMounted /\ dmError = "none" /\ ~dmLoading

\* initMap of DetailMap, for the lat / lng props pos
DmInitMap(pos) ==
    IF ~DmContainer \/ ~naverMaps
    THEN UNCHANGED <<dmLoading, dmError, dmInstance, dmCenter, dmZoom, dmMarkers>>
    ELSE IF dmInstance
    THEN /\ dmLoading' = FALSE
         /\ UNCHANGED <<dmError, dmInstance, dmCenter, dmZoom, dmMarkers>>
    ELSE /\ dmInstance' = TRUE
         /\ dmCenter' = pos
         /\ dmZoom' = DM_ZOOM
         /\ dmMarkers' = 1
         /\ dmLoading' = FALSE
         /\ UNCHANGED dmError

\* first render (the loading view) and the script load effect
DmMount(pos) ==
    /\ ~dmMounted
    /\ dmMounted' = TRUE
    /\ dmPos' = pos
    /\ IF naverMaps
       THEN /\ DmInitMap(pos)
            /\ UNCHANGED <<envVars, dmWait, dmInjected>>
       ELSE IF scriptState # "absent"
       THEN /\ dmWait' = "existing"
            /\ UNCHANGED <<envVars, dmInjected, dmLoading, dmError, dmInstance,
                           dmCenter, dmZoom, dmMarkers>>
       ELSE /\ scriptState' = "loading"
            /\ dmInjected' = TRUE
            /\ dmWait' = "script"
            /\ UNCHANGED <<naverMaps, dmLoading, dmError, dmInstance, dmCenter,
                           dmZoom, dmMarkers>>
    /\ UNCHANGED <<dmAttempts, normVars, pageVars, ctlOwnVars>>

\* the script finishes loading; script.onload of an injected script starts
\* the 100 ms poll
DmScriptLoaded ==
    /\ dmMounted
    /\ scriptState = "loading"
    /\ scriptState' = "loaded"
    /\ IF dmWait = "script"
       THEN dmWait' = "poll" /\ dmAttempts' = 0
       ELSE UNCHANGED <<dmWait, dmAttempts>>
    /\ UNCHANGED <<dmPos, naverMaps, dmMounted, dmLoading, dmError, dmInstance, dmCenter,
                   dmZoom, dmMarkers, dmInjected, normVars, pageVars, ctlOwnVars>>

\* the load fails; script.onerror of an injected script
DmScriptError ==
    /\ dmMounted
    /\ scriptState = "loading"
    /\ scriptState' = "failed"
    /\ IF dmWait = "script"
       THEN dmWait' = "none" /\ dmError' = "network" /\ dmLoading' = FALSE
       ELSE UNCHANGED <<dmWait, dmError, dmLoading>>
    /\ UNCHANGED <<dmPos, naverMaps, dmMounted, dmInstance, dmCenter, dmZoom, dmMarkers,
                   dmAttempts, dmInjected, normVars, pageVars, ctlOwnVars>>

\* the SDK defines window.naver.maps
DmMapsAvailable ==
    /\ dmMounted
    /\ scriptState = "loaded"
    /\ ~naverMaps
    /\ naverMaps' = TRUE
    /\ UNCHANGED <<scriptState, dmVars, normVars, pageVars, ctlOwnVars>>

\* window.navermap_authFailure, registered when the script is injected
DmAuthFailure ==
    /\ dmMounted
    /\ dmInjected
    /\ scriptState = "loaded"
    /\ dmError # "auth"
    /\ dmError' = "auth"
    /\ dmLoading' = FALSE
    /\ UNCHANGED <<dmPos, envVars, dmMounted, dmInstance, dmCenter, dmZoom, dmMarkers,
                   dmWait, dmAttempts, dmInjected, normVars, pageVars, ctlOwnVars>>

\* one tick of the interval script.onload started
DmPollTick ==
    /\ dmMounted
    /\ dmWait = "poll"
    /\ IF naverMaps
       THEN /\ dmWait' = "none"
            /\ dmAttempts' = dmAttempts + 1
            /\ DmInitMap(dmPos)
       ELSE IF dmAttempts + 1 >= DM_MAX_ATTEMPTS
       THEN /\ dmWait' = "none"
            /\ dmAttempts' = dmAttempts + 1
            /\ dmError' = "timeout"
            /\ dmLoading' = FALSE
            /\ UNCHANGED <<dmInstance, dmCenter, dmZoom, dmMarkers>>
       ELSE /\ dmAttempts' = dmAttempts + 1
            /\ UNCHANGED <<dmWait, dmLoading, dmError, dmInstance, dmCenter,
                           dmZoom, dmMarkers>>
    /\ UNCHANGED <<dmPos, envVars, dmMounted, dmInjected, normVars, pageVars, ctlOwnVars>>

\* a tick of the interval that waits for an already present script and finds
\* window.naver.maps
DmExistingTick ==
    /\ dmMounted
    /\ dmWait = "existing"
    /\ naverMaps
    /\ dmWait' = "none"
    /\ DmInitMap(dmPos)
    /\ UNCHANGED <<dmPos, envVars, dmMounted, dmAttempts, dmInjected, normVars, pageVars,
                   ctlOwnVars>>

\* the 10 s timeout of that wait: clearInterval(poll) and nothing else
DmExistingTimeout ==
    /\ dmMounted
    /\ dmWait = "existing"
    /\ dmWait' = "none"
    /\ UNCHANGED <<dmPos, envVars, dmMounted, dmLoading, dmError, dmInstance, dmCenter,
                   dmZoom, dmMarkers, dmAttempts, dmInjected, normVars, pageVars,
                   ctlOwnVars>>

NextDetail ==
    \/ \E pos \in DetailPositions : DmMount(pos)
    \/ DmScriptLoaded
    \/ DmScriptError
    \/ DmMapsAvailable
    \/ DmAuthFailure
    \/ DmPollTick
    \/ DmExistingTick
    \/ DmExistingTimeout

-----------------------------------------------------------------------------

Init ==
    /\ mapx = Str(<<>>) /\ mapy = Str(<<>>) /\ result = NoResult
    /\ CtlInit
    /\ PageInit
    /\ DmInit

Next ==
    \/ \E ds \in DataSets, ac \in AreaCodes, sel \in TourIds \cup {""} :
          Mount(ds, ac, sel)
    \/ \E ds \in DataSets : SetTours(ds)
    \/ \E ac \in AreaCodes : SetAreaCode(ac)
    \/ \E id \in TourIds \cup {""} : SetSelected(id)
    \/ RunScriptLoadEffect
    \/ CommitReady
    \/ RunRegionEffect
    \/ RunMarkerCleanup
    \/ RunMarkerEffect
    \/ RunSelectionEffect
    \/ RunHoverEffect
    \/ ScriptLoaded
    \/ ScriptError
    \/ MapsAvailable
    \/ NaverMapOnLoad
    \/ AuthFailure
    \/ MapsPollTick
    \/ ContainerPollTick
    \/ ExistingPollTick
    \/ ExistingTimeout
    \/ handleZoomIn
    \/ handleZoomOut
    \/ \E m \in onMap : MarkerClick(m)
    \/ handleCurrentLocation
    \/ \E pos \in GeoPositions : GeoSuccess(pos)
    \/ GeoError

\* SetHovered and handleMapTypeChange write only hoveredTourId and mapType,
\* which no other action writes; Next leaves them out and NextView has them.
Spec == Init /\ [][Next]_vars

\* the effects of a commit, which React runs to the end once it has begun
RunEffects ==
    \/ RunScriptLoadEffect
    \/ CommitReady
    \/ RunRegionEffect
    \/ RunMarkerEffect
    \/ RunSelectionEffect
    \/ RunHoverEffect

\* what the browser and the SDK may do to the script and its callbacks
ScriptEvents ==
    \/ ScriptLoaded
    \/ ScriptError
    \/ MapsAvailable
    \/ NaverMapOnLoad
    \/ AuthFailure

\* the intervals and the timeout the component has armed
Timers ==
    \/ MapsPollTick
    \/ ContainerPollTick
    \/ ExistingPollTick
    \/ ExistingTimeout

\* the viewport of one data set: every event but the data-set replace and
\* the geolocation request, which Next has
NextView ==
    \/ \E ds \in DataSets, ac \in ViewAreaCodes, sel \in TourIds \cup {""} :
          Mount(ds, ac, sel)
    \/ \E ac \in ViewAreaCodes : SetAreaCode(ac)
    \/ \E id \in TourIds \cup {""} : SetSelected(id)
    \/ \E id \in HoverIds \cup {""} : SetHovered(id)
    \/ RunEffects
    \/ ScriptEvents
    \/ Timers
    \/ handleZoomIn
    \/ handleZoomOut
    \/ handleMapTypeChange
    \/ \E m \in onMap : MarkerClick(m)

SpecView == Init /\ [][NextView]_vars

\* the life of one instance from mount to unmount: data sets, selections,
\* marker clicks and a repeated load callback, without the viewport controls
NextLife ==
    \/ \E ds \in DataSets, ac \in AreaCodes, sel \in TourIds \cup {""} :
          Mount(ds, ac, sel)
    \/ \E ds \in DataSets : SetTours(ds)
    \/ \E id \in TourIds \cup {""} : SetSelected(id)
    \/ RunEffects
    \/ RunMarkerCleanup
    \/ ScriptEvents
    \/ Timers
    \/ \E m \in onMap : MarkerClick(m)
    \/ NaverMapOnLoadAgain
    \/ Unmount

SpecLife == Init /\ [][NextLife]_vars

\* the props change while the map is not ready
EarlyProps ==
    /\ ~mapReady
    /\ \/ \E ds \in DataSets : SetTours(ds)
       \/ \E ac \in AreaCodes : SetAreaCode(ac)
       \/ \E id \in TourIds \cup {""} : SetSelected(id)
       \/ \E id \in HoverIds \cup {""} : SetHovered(id)

\* initialisation: every kind of event, the props changing only until the map
\* is ready
NextBoot ==
    \/ \E ds \in DataSets, ac \in AreaCodes, sel \in TourIds \cup {""} :
          Mount(ds, ac, sel)
    \/ EarlyProps
    \/ RunEffects
    \/ ScriptEvents
    \/ Timers
    \/ handleZoomIn
    \/ handleZoomOut
    \/ handleMapTypeChange
    \/ handleCurrentLocation
    \/ \E pos \in GeoPositions : GeoSuccess(pos)
    \/ GeoError
    \/ \E m \in onMap : MarkerClick(m)

SpecBoot == Init /\ [][NextBoot]_vars

SpecPage == Init /\ [][NextPage]_vars

SpecDetail == Init /\ [][NextDetail]_vars
-----------------------------------------------------------------------------
(* Properties of the normaliser, under SpecNorm *)

ParsedX == ParseRaw(mapx)
ParsedY == ParseRaw(mapy)

\* 124.0 <= x <= 132.0 and 33.0 <= y <= 38.6
InRegionalBox(x, y) ==
    /\ Le(Fin(124, 0), x) /\ Le(x, Fin(132, 0))
    /\ Le(Fin(33, 0), y) /\ Le(y, Fin(386, 1))

MagnitudeAtLeastMillion(x) ==
    x.k \in {"pinf", "ninf"} \/ (x.k = "fin" /\ CmpFin(AbsNum(x), Fin(1, -6)) >= 0)

WithinWorld(lng, lat) ==
    /\ Le(Fin(-180, 0), lng) /\ Le(lng, Fin(180, 0))
    /\ Le(Fin(-90, 0), lat) /\ Le(lat, Fin(90, 0))

\* C8: a raw pair, string or number, whose parsed values lie inside the
\* regional box is returned unchanged and marked valid.
C8_InBoxPassThrough ==
    (result.done /\ InRegionalBox(ParsedX, ParsedY))
        => /\ result.lng = ParsedX
           /\ result.lat = ParsedY
           /\ result.valid

\* scenario 2: ("126.978", "37.5665") has been normalised
C8_Witness ==
    /\ result.done
    /\ mapx = Str(<<"1", "2", "6", ".", "9", "7", "8">>)
    /\ mapy = Str(<<"3", "7", ".", "5", "6", "6", "5">>)
    /\ result.lng = Fin(126978, 3)
    /\ result.lat = Fin(375665, 4)

\* C9 as stated: whenever either magnitude is at least 1,000,000 both values
\* are divided by 10,000,000 and both results are finite.
C9_DividedAndFinite ==
    (result.done /\ (MagnitudeAtLeastMillion(ParsedX) \/ MagnitudeAtLeastMillion(ParsedY)))
        => /\ result.lng = DivPow10(ParsedX, 7)
           /\ result.lat = DivPow10(ParsedY, 7)
           /\ IsFiniteNum(result.lng)
           /\ IsFiniteNum(result.lat)

\* C9 amended: whenever either magnitude is at least 1,000,000 both values are
\* divided by 10,000,000, and each result is finite when its parsed value is.
C9_DividedFiniteWhenInputFinite ==
    (result.done /\ (MagnitudeAtLeastMillion(ParsedX) \/ MagnitudeAtLeastMillion(ParsedY)))
        => /\ result.lng = DivPow10(ParsedX, 7)
           /\ result.lat = DivPow10(ParsedY, 7)
           /\ IsFiniteNum(ParsedX) => IsFiniteNum(result.lng)
           /\ IsFiniteNum(ParsedY) => IsFiniteNum(result.lat)

\* scenario 1: ("1269780000", "375665000") came out as (126.978, 37.5665), valid
C9_Witness ==
    /\ result.done
    /\ mapx = Str(<<"1", "2", "6", "9", "7", "8", "0", "0", "0", "0">>)
    /\ mapy = Str(<<"3", "7", "5", "6", "6", "5", "0", "0", "0">>)
    /\ result.lng = Fin(126978, 3)
    /\ result.lat = Fin(375665, 4)
    /\ result.valid

\* C10: the validity flag is true exactly when the returned longitude and
\* latitude are finite, non-zero and within [-180, 180] / [-90, 90]; lying
\* outside the regional box does not enter into it.
C10_ValidIffFiniteNonZeroWorld ==
    result.done =>
        (result.valid <=>
            /\ IsFiniteNum(result.lng) /\ IsFiniteNum(result.lat)
            /\ result.lng # Zero /\ result.lat # Zero
            /\ WithinWorld(result.lng, result.lat))

\* a valid result outside the regional box
C10_Witness ==
    /\ result.done
    /\ result.valid
    /\ ~InRegionalBox(result.lng, result.lat)
    /\ result.lng = Fin(1397, 1)


\* finite and of magnitude below 1,000,000
MagnitudeBelowMillion(x) == x.k = "fin" /\ CmpFin(AbsNum(x), Fin(1, -6)) < 0

\* the pair takes the final else branch as the claim describes it
InSmallBranch(x, y) ==
    /\ ~InRegionalBox(x, y)
    /\ MagnitudeBelowMillion(x)
    /\ MagnitudeBelowMillion(y)

\* C11 as stated: normalising the returned pair of a valid result once more
\* gives the same pair.
C11_IdempotentOnValidOutput ==
    (result.done /\ result.valid)
        => /\ toWgs84FromKTO(Num(result.lng), Num(result.lat)).lng = result.lng
           /\ toWgs84FromKTO(Num(result.lng), Num(result.lat)).lat = result.lat

\* C12 as stated: in the small-value branch the raw pair is returned when it
\* lies within world bounds and the divided pair is outside the regional
\* box; otherwise the divided pair is returned.
C12_SmallBranchFallsBackWithinWorld ==
    (result.done /\ InSmallBranch(ParsedX, ParsedY))
        => IF /\ WithinWorld(ParsedX, ParsedY)
              /\ ~InRegionalBox(DivPow10(ParsedX, 7), DivPow10(ParsedY, 7))
           THEN result.lng = ParsedX /\ result.lat = ParsedY
           ELSE /\ result.lng = DivPow10(ParsedX, 7)
                /\ result.lat = DivPow10(ParsedY, 7)

NumberKinds == {"fin", "nan", "pinf", "ninf"}

\* C13: every input pair, numeric or text, gets a result that carries lng,
\* lat and a boolean valid; nothing is thrown and nothing is left out, and a
\* non-finite coordinate always comes with valid = false.
C13_AlwaysReturnsFlaggedResult ==
    result.done =>
        /\ DOMAIN result = {"done", "lng", "lat", "valid"}
        /\ result.valid \in BOOLEAN
        /\ result.lng.k \in NumberKinds
        /\ result.lat.k \in NumberKinds
        /\ (~IsFiniteNum(result.lng) \/ ~IsFiniteNum(result.lat)) => ~result.valid

\* non-numeric text paired with -Infinity came back flagged invalid
C13_Witness ==
    /\ result.done
    /\ mapx = Str(<<"a", "b", "c">>)
    /\ mapy = Num(NInf)
    /\ result.lat = NInf
    /\ ~result.valid

\* texts without a numeric prefix, the empty text included
NonNumericTexts == {<<>>, <<"a", "b", "c">>, <<".">>}
IsNonNumeric(v) == v.t = "str" /\ v.s \in NonNumericTexts

-----------------------------------------------------------------------------
(* Properties of the map controller, under Spec *)

\* the map is ready and every effect of the last commit has run
Settled == Idle /\ mapReady

\* the normalized coordinate of every record a data set may hold
Normalized == [t \in Range(AllTours) |-> toWgs84FromKTO(t.mapx, t.mapy)]
ValidRecord(t) == Normalized[t].valid
NormalizedPosition(t) == Coord(Normalized[t].lat, Normalized[t].lng)
RecordsWithId(id) == { i \in 1..Len(tours) : tours[i].contentid = id }
LiveMarkersOf(i) ==
    { m \in onMap : /\ m.id = tours[i].contentid
                    /\ m.gen = generation
                    /\ m.position = NormalizedPosition(tours[i]) }
SetA == Picks({1, 2, 3}, 1)
SetB == Picks({3, 4}, 1)

\* C1: once a data set has been put on a ready map, the map carries exactly
\* one marker for each record of that set whose normalized coordinate is valid
\* (inside the regional box or not), none for a record whose coordinate is
\* invalid, and none that was created for an earlier data set.
C1_OneMarkerPerValidRecord ==
    Settled =>
        /\ \A i \in 1..Len(tours) :
              Cardinality(LiveMarkersOf(i)) = IF ValidRecord(tours[i]) THEN 1 ELSE 0
        /\ \A m \in onMap :
              /\ m.gen = generation
              /\ \E i \in RecordsWithId(m.id) : ValidRecord(tours[i])
        /\ Cardinality(onMap) =
              Cardinality({ i \in 1..Len(tours) : ValidRecord(tours[i]) })

\* a replace has just put set A (one scaled record, one record without a
\* location, one valid record outside the regional box) on the ready map
C1_Witness ==
    /\ Settled
    /\ last = Event("markers", TRUE)
    /\ generation >= 2
    /\ tours = SetA
    /\ Cardinality(onMap) = 2
    /\ \E m \in onMap : m.id = "t3" /\ ~InRegionalBox(m.position.lng, m.position.lat)

\* C2: right after the selection of an id that has a marker, the viewport
\* center is the normalized coordinate of that record and the overlay is open,
\* anchored to the record's marker, with its title, address and detail link.
C2_SelectionCentersAndOpens ==
    last = Event("select", TRUE) =>
        \E i \in RecordsWithId(selectedTourId) :
            /\ center = NormalizedPosition(tours[i])
            /\ infoWindow.open
            /\ infoWindow.anchor \in onMap
            /\ infoWindow.anchor = markerMap[selectedTourId].marker
            /\ infoWindow.anchor.id = selectedTourId
            /\ infoWindow.anchor.position = center
            /\ infoWindow.content.title = tours[i].title
            /\ infoWindow.content.address =
                  (IF tours[i].addr1 = "" THEN "no address" ELSE tours[i].addr1)
            /\ infoWindow.content.link = tours[i].contentid

\* record t1 has just been selected and the map is centred on Seoul
C2_Witness ==
    /\ last = Event("select", TRUE)
    /\ Idle
    /\ selectedTourId = "t1"
    /\ center = Coord(Fin(375665, 4), Fin(126978, 3))
    /\ infoWindow.open

\* C3 as stated: the selection of an id that has a marker never lowers the
\* zoom; from any zoom in [1, 21] the zoom afterwards is at least the zoom
\* before and at least 15.
C3_SelectionNeverLowersZoom ==
    [][(Running("selection") /\ SelectionApplies /\ zoom \in MIN_ZOOM..MAX_ZOOM)
          => (zoom' >= zoom /\ zoom' >= 15)]_vars

\* C4: the selection of an id that has no marker changes nothing: center,
\* zoom, the markers, the overlay and the error state stay as they were.
C4_AbsentSelectionIsNoOp ==
    [][(Running("selection") /\ selectedTourId # ""
            /\ selectedTourId \notin DOMAIN markerMap)
          => UNCHANGED <<center, zoom, markersRef, markerMap, onMap, infoWindow,
                         error>>]_vars

\* an id without a marker has just been selected on the ready map while the
\* overlay of another marker was open, and the overlay is still open
C4_Witness ==
    /\ last = Event("select", FALSE)
    /\ Settled
    /\ selectedTourId # ""
    /\ selectedTourId \notin DOMAIN markerMap
    /\ markerMap # EmptyMap
    /\ infoWindow.open

\* C5 as stated, read at its most favourable (map ready, commit finished):
\* a selected id that is set is an id of the marker collection.
C5_SelectedAlwaysHasMarker ==
    (Settled /\ selectedTourId # "") => selectedTourId \in DOMAIN markerMap

\* C5 amended: on a ready map whose commit has finished, a selected id that
\* is set is in the marker collection exactly when it is the id of a record
\* of the current data set with a valid normalized coordinate; otherwise the
\* id stays set and has no marker.
C5_SelectedHasMarkerIffValidRecord ==
    (Settled /\ selectedTourId # "") =>
        (selectedTourId \in DOMAIN markerMap
            <=> \E i \in RecordsWithId(selectedTourId) : ValidRecord(tours[i]))

\* t1 is still selected after a replace brought in set B, which has no t1
C5_Witness ==
    /\ Settled
    /\ last = Event("markers", TRUE)
    /\ generation >= 2
    /\ selectedTourId = "t1"
    /\ tours = SetB
    /\ markerMap # EmptyMap
    /\ "t1" \notin DOMAIN markerMap

\* C6: in no state, intermediate ones included, does the map carry markers
\* of two different data sets; the markers on it are the ones the component
\* holds in markersRef.
C6_NeverTwoDataSetsOnMap ==
    /\ \A m1, m2 \in onMap : m1.gen = m2.gen
    /\ onMap = Range(markersRef)

\* in the middle of a replace: the prior markers are off the map and the
\* markers of the new, non-empty set are not created yet
C6_Witness ==
    /\ Running("marker")
    /\ last = Event("markerCleanup", FALSE)
    /\ mapReady
    /\ generation >= 2
    /\ tours # <<>>
    /\ onMap = {}

\* C7: after data sets were handed over one after the other and the effects
\* have run, the map, markersRef and the marker map hold markers of the
\* latest data set only.
C7_LatestDataSetWins ==
    Settled =>
        /\ \A m \in onMap \cup Range(markersRef) :
              m.gen = generation /\ RecordsWithId(m.id) # {}
        /\ \A id \in DOMAIN markerMap :
              /\ markerMap[id].marker.gen = generation
              /\ markerMap[id].marker \in onMap
              /\ markerMap[id].tour \in Range(tours)

\* the third data set in a row is on the map
C7_Witness ==
    /\ Settled
    /\ last = Event("markers", TRUE)
    /\ generation >= 3
    /\ onMap # {}

-----------------------------------------------------------------------------
(* Failure, initialisation and the viewport *)

Failed == error # "none"

\* C15: once the controller is Failed it stays Failed, no second script is
\* injected, and no step afterwards changes the viewport, the markers on the
\* map, markersRef or the marker map.
C15_FailedIsTerminal ==
    [][Failed =>
         /\ Failed'
         /\ UNCHANGED <<injected, center, zoom, onMap, markersRef, markerMap>>]_vars

\* what the component or the browser is bound to do next: a pending effect
\* runs, an armed interval or timeout fires, the load of the script ends with
\* onload or onerror
StepScheduled ==
    \/ pending # <<>>
    \/ loadWait \in {"maps", "container", "existing"}
    \/ scriptState = "loading"

\* C16: a mounted controller that has neither a ready map nor an error always
\* has a step scheduled that brings it on, so that no run can stay in
\* initialisation for ever.
C16_InitializationNeverStalls ==
    (mounted /\ ~mapReady /\ ~Failed) => StepScheduled

\* C17: after every step the zoom of an existing map is within 1..21, a
\* zoom-in at 21 leaves the zoom at 21 and a zoom-out at 1 leaves it at 1.
C17_ZoomStaysInRange ==
    [][/\ mapInstance' => zoom' \in 1..21
       /\ (handleZoomIn /\ zoom = 21) => zoom' = 21
       /\ (handleZoomOut /\ zoom = 1) => zoom' = 1]_vars

\* the zoom-in button has brought a ready map to the upper limit
C17_Witness ==
    /\ Settled
    /\ ControlsShown
    /\ zoom = 21

\* the default viewport of each area code: Seoul, Jeju, and the nationwide
\* default for a missing or unknown code
RegionDefault ==
    [code \in ViewAreaCodes |->
        IF code = "1"
        THEN [center |-> Coord(Fin(375665, 4), Fin(126978, 3)), zoom |-> 11]
        ELSE IF code = "39"
        THEN [center |-> Coord(Fin(334996, 4), Fin(1265312, 4)), zoom |-> 10]
        ELSE [center |-> Coord(Fin(365, 1), Fin(1275, 1)), zoom |-> 7]]

\* C18: the region effect on an existing map sets center and zoom to the
\* default of the current area code, the nationwide default for a missing or
\* unknown code, and leaves the markers on the map, markersRef and the marker
\* map as they were.
C18_RegionChangeMovesViewportOnly ==
    [][(Running("region") /\ pending' = Tail(pending) /\ mapInstance /\ naverMaps) =>
         /\ center' = RegionDefault[areaCode].center
         /\ zoom' = RegionDefault[areaCode].zoom
         /\ UNCHANGED <<onMap, markersRef, markerMap>>]_vars

\* an unknown code has moved a ready map that carries markers to the
\* nationwide default
C18_Witness ==
    /\ last = Event("region", TRUE)
    /\ mapReady
    /\ areaCode = "99"
    /\ center = Coord(Fin(365, 1), Fin(1275, 1))
    /\ zoom = 7
    /\ onMap # {}

\* C19: the hover effect, whether the hovered id has a marker or not, leaves
\* the center, the zoom, the overlay (open or not, anchor, content) and the
\* markers unchanged.
C19_HoverChangesNothing ==
    [][(Running("hover") /\ pending' = Tail(pending)) =>
         UNCHANGED <<center, zoom, infoWindow, onMap, markersRef, markerMap>>]_vars

\* the hover effect found the marker while the overlay of the selection is
\* open on the selected marker
C19_Witness ==
    /\ last = Event("hover", TRUE)
    /\ selectedTourId # ""
    /\ infoWindow.open
    /\ infoWindow.anchor.id = selectedTourId
    /\ infoWindow.content.link = selectedTourId

\* C20: the map never carries two markers of one record id, the markers of
\* the marker map are exactly the markers on the map, and each is entered
\* under its own record id.
C20_MarkerMapMatchesMap ==
    /\ \A m1 \in onMap : \A m2 \in onMap : m1.id = m2.id => m1 = m2
    /\ onMap = { markerMap[id].marker : id \in DOMAIN markerMap }
    /\ \A id \in DOMAIN markerMap : markerMap[id].marker.id = id

\* a second data set with two valid records is on the map
C20_Witness ==
    /\ Settled
    /\ generation >= 2
    /\ Cardinality(onMap) >= 2
    /\ Cardinality(DOMAIN markerMap) >= 2

-----------------------------------------------------------------------------
(* Initialisation, unmount and geolocation *)

\* C21: a step taken while the map is not ready changes no marker, not the
\* marker bookkeeping and not the overlay, and changes the viewport only by
\* constructing the widget.
C21_NothingBeforeReady ==
    [][~mapReady =>
         /\ UNCHANGED <<onMap, markersRef, markerMap, infoWindow>>
         /\ \/ UNCHANGED <<center, zoom, mapType>>
            \/ ~mapInstance /\ mapInstance']_vars

\* a data set and a selection with a marker were handed over and their
\* effects ran before the widget existed
C21_Witness ==
    /\ Idle
    /\ ~mapInstance
    /\ generation >= 2
    /\ \E i \in 1..Len(tours) :
          tours[i].contentid = selectedTourId /\ ValidRecord(tours[i])
    /\ onMap = {}

\* C22: once the component is unmounted no marker is on the map and markersRef
\* and the marker map are empty.
C22_UnmountReleasesMarkers ==
    (~mounted /\ generation > 0) =>
        /\ onMap = {}
        /\ markersRef = <<>>
        /\ markerMap = EmptyMap

\* the unmount ran the cleanup of a marker effect that had drawn markers
C22_Witness ==
    /\ ~mounted
    /\ last = Event("unmount", TRUE)
    /\ tours # <<>>
    /\ onMap = {}

\* C23: the error callback of a geolocation request reports the failure and
\* leaves the viewport, the markers, the overlay and the error / ready state
\* as they were; no request is pending afterwards.
C23_GeoFailureChangesNothing ==
    [][(geoPending /\ last'.ev = "geoError") =>
         /\ last'.hit
         /\ ~geoPending'
         /\ UNCHANGED <<center, zoom, mapType, onMap, markersRef, markerMap,
                        infoWindow, error, mapReady, mapInstance, isLoading>>]_vars

\* a request failed on a ready map that carries markers
C23_Witness ==
    /\ last = Event("geoError", TRUE)
    /\ mapReady
    /\ ~geoPending
    /\ onMap # {}

\* how many ready commits a queue of effects holds
RECURSIVE ReadyCount(_)
ReadyCount(q) ==
    IF q = <<>> THEN 0
    ELSE (IF Head(q) = "ready" THEN 1 ELSE 0) + ReadyCount(Tail(q))

\* C24: once the widget instance exists it stays, no step constructs another
\* (no further ready commit is queued), and a repeated load callback leaves
\* the viewport as it is.
C24_ConstructedOnce ==
    [][mapInstance =>
         /\ mapInstance'
         /\ ReadyCount(pending') <= ReadyCount(pending)
         /\ (last'.ev = "loadAgain") => UNCHANGED <<center, zoom, mapType>>]_vars

\* the load callback came again after a selection had moved the viewport
C24_Witness ==
    /\ last = Event("loadAgain", TRUE)
    /\ mapInstance
    /\ zoom = 15
    /\ center # Coord(getRegionCenter(mountAreaCode).lat,
                      getRegionCenter(mountAreaCode).lng)

-----------------------------------------------------------------------------
(* The overlay and the ready commit *)

\* C27: an open overlay is anchored to a marker that is on the map and is the
\* marker map's entry for its record id, and shows the content of that
\* record; this holds through data-set replaces and after the unmount.
C27_OverlayOnLiveMarker ==
    infoWindow.open =>
        /\ infoWindow.anchor \in onMap
        /\ infoWindow.anchor.id \in DOMAIN markerMap
        /\ markerMap[infoWindow.anchor.id].marker = infoWindow.anchor
        /\ infoWindow.content = ContentHtml(markerMap[infoWindow.anchor.id].tour)

\* the overlay is open on a marker of a later data set
C27_Witness ==
    /\ Settled
    /\ infoWindow.open
    /\ generation >= 2
    /\ infoWindow.anchor.gen = generation
    /\ infoWindow.anchor \in onMap

\* the selection effect of the commit that made the map ready is about to run
SelectionOfReadyCommit ==
    /\ mapReady
    /\ Running("selection")
    /\ Len(pending) >= 2

\* the markers of the current data set, and no others, are on the map
MarkersDrawn ==
    /\ \A i \in 1..Len(tours) :
          Cardinality(LiveMarkersOf(i)) = IF ValidRecord(tours[i]) THEN 1 ELSE 0
    /\ \A m \in onMap : m.gen = generation

SelectedHasValidRecord ==
    \E i \in 1..Len(tours) :
        tours[i].contentid = selectedTourId /\ ValidRecord(tours[i])

\* C28: in the commit that makes the map ready the markers of the current
\* data set are on the map when the selection effect runs, and the selection
\* effect then centers the viewport on the selected record's marker at level
\* 15 and opens the overlay on it.
C28_ReadyAppliesDataThenSelection ==
    [][SelectionOfReadyCommit =>
         /\ MarkersDrawn
         /\ (SelectedHasValidRecord /\ pending' = Tail(pending)) =>
               /\ \E i \in 1..Len(tours) :
                     /\ tours[i].contentid = selectedTourId
                     /\ center' = NormalizedPosition(tours[i])
               /\ zoom' = 15
               /\ infoWindow'.open
               /\ infoWindow'.anchor.id = selectedTourId
               /\ infoWindow'.anchor \in onMap']_vars

\* a data set handed over before the map was ready is drawn and its selected
\* record opened in the ready commit
C28_Witness ==
    /\ mapReady
    /\ pending = <<"hover">>
    /\ last = Event("select", TRUE)
    /\ generation >= 2
    /\ infoWindow.open
    /\ onMap # {}

\* C29: the commit that makes the map ready finds the viewport at the region
\* default of the current area code.
C29_ReadyViewportIsCurrentRegion ==
    last = Event("ready", FALSE) =>
        /\ center = RegionDefault[areaCode].center
        /\ zoom = RegionDefault[areaCode].zoom

-----------------------------------------------------------------------------
(* The home page and DetailMap *)

\* C25: a filter change issues a request for page 1 with the new filters,
\* whether the page is in filter mode or in search mode.
C25_FilterChangeReloads ==
    [][pageLast' = "filters" =>
         \E r \in inflight' \ inflight :
             r.req.filters = filters' /\ r.req.page = 1]_vars

\* C30: once every list request has been answered without an error, the
\* list, the total count and the page displayed are those of the request that
\* was issued last.
C30_LatestRequestWins ==
    (PageMounted /\ inflight = {} /\ listError = "none") =>
        /\ listTours = lastIssued
        /\ totalCount = TotalOf(lastIssued)
        /\ currentPage = lastIssued.page

\* what DetailMap or the browser is bound to do next: the load of the script
\* ends, an interval ticks
DmStepScheduled ==
    \/ dmWait \in {"poll", "existing"}
    \/ dmWait = "script" /\ scriptState = "loading"

\* C26: a mounted DetailMap that still shows the loading view always has a
\* step scheduled that brings it on, so that no mount stays loading for ever.
C26_DetailMapNeverStalls ==
    (dmMounted /\ dmLoading /\ dmError = "none") => DmStepScheduled
====
